---------------------------- MODULE Spec2Model ----------------------------
(***************************************************************************)
(* Model of MistByteX/predictor: the divination rule engine (meihua.py),   *)
(* its yi command (cli.py) and the numeric forecasters (algorithms.py).    *)
(*                                                                         *)
(* Chinese identifiers and string literals of the source are written in    *)
(* pinyin:                                                                 *)
(*   elements  mu=木 huo=火 tu=土 jin=金 shui=水, weizhi=未知               *)
(*   relations bihe=比和 xiangsheng=相生 xiangke=相克 wuguan=无关           *)
(*   verdicts  ji=吉 xiong=凶 ping=平 daji=大吉                            *)
(*   keys      guanxi=关系 jixiong=吉凶 shuoming=说明 wuxing=五行           *)
(*             fangwei=方位 shuxing=属性 sheng=生 ke=克                    *)
(***************************************************************************)
EXTENDS Integers, Sequences, FiniteSets, TLC

VARIABLES
    pc,      \* "idle": no call in progress; "done": a call has returned or raised
    last,    \* the last call: its operation, its arguments and its outcome
    lr,      \* fields slope, intercept of a standalone LinearRegression instance
    ens      \* fields slope, intercept of EnsemblePredictor.algorithms["linear"]

vars == <<pc, last, lr, ens>>

-----------------------------------------------------------------------------
(* meihua.py: static tables *)

BAGUA ==
    [i \in 1..8 |->
        CASE i = 1 -> [name |-> "qian", symbol |-> "U+2630", wuxing |-> "jin",
                       fangwei |-> "xibei", shuxing |-> "tian"]
          [] i = 2 -> [name |-> "dui", symbol |-> "U+2631", wuxing |-> "jin",
                       fangwei |-> "xi", shuxing |-> "ze"]
          [] i = 3 -> [name |-> "li", symbol |-> "U+2632", wuxing |-> "huo",
                       fangwei |-> "nan", shuxing |-> "huo"]
          [] i = 4 -> [name |-> "zhen", symbol |-> "U+2633", wuxing |-> "mu",
                       fangwei |-> "dong", shuxing |-> "lei"]
          [] i = 5 -> [name |-> "xun", symbol |-> "U+2634", wuxing |-> "mu",
                       fangwei |-> "dongnan", shuxing |-> "feng"]
          [] i = 6 -> [name |-> "kan", symbol |-> "U+2635", wuxing |-> "shui",
                       fangwei |-> "bei", shuxing |-> "shui"]
          [] i = 7 -> [name |-> "gen", symbol |-> "U+2636", wuxing |-> "tu",
                       fangwei |-> "dongbei", shuxing |-> "shan"]
          [] i = 8 -> [name |-> "kun", symbol |-> "U+2637", wuxing |-> "tu",
                       fangwei |-> "xinan", shuxing |-> "di"]]

WUXING_RELATIONS ==
    [mu   |-> [sheng |-> "huo",  ke |-> "tu"],
     huo  |-> [sheng |-> "tu",   ke |-> "jin"],
     tu   |-> [sheng |-> "jin",  ke |-> "shui"],
     jin  |-> [sheng |-> "shui", ke |-> "mu"],
     shui |-> [sheng |-> "mu",   ke |-> "huo"]]

DIRECTION_TO_NUM ==
    [bei |-> 1, nan |-> 3, dong |-> 4, xi |-> 2,
     xibei |-> 1, dongbei |-> 7, dongnan |-> 5, xinan |-> 8,
     kan |-> 1, li |-> 3, zhen |-> 4, dui |-> 2,
     xun |-> 5, gen |-> 7, kun |-> 8, qian |-> 1]

\* dict.get(key, default)
DictGet(dict, key, default) ==
    IF key \in DOMAIN dict THEN dict[key] ELSE default

-----------------------------------------------------------------------------
(* meihua.py: functions *)

\* no wraparound at all
GetGuaNumberNoWrap(num) == num

\* a remainder that is not brought into 1..8
GetGuaNumberNoShift(num) == (num - 1) % 8

\* Python's % with a positive modulus is the floor modulus, as is TLA+'s
get_gua_number(num) == ((num - 1) % 8) + 1

\* the hour left out of the lower trigram
TimeToGuaNoHour(year, month, day, hour) ==
    <<get_gua_number(year + month + day), get_gua_number(year + month + day)>>

time_to_gua(year, month, day, hour) ==
    LET shang == get_gua_number(year + month + day)
        xia   == get_gua_number(year + month + day + hour)
    IN  <<shang, xia>>

\* an unrecognised term given the code 0
DirectionToGuaDefault0(direction) ==
    get_gua_number(DictGet(DIRECTION_TO_NUM, direction, 0))

direction_to_gua(direction) ==
    LET num == DictGet(DIRECTION_TO_NUM, direction, 5)
    IN  get_gua_number(num)

get_gua_details(num) ==
    IF num \in DOMAIN BAGUA
    THEN BAGUA[num]
    ELSE [name |-> "weizhi", symbol |-> "?", wuxing |-> "weizhi",
          fangwei |-> "weizhi", shuxing |-> "weizhi"]

\* WUXING_RELATIONS.get(w, {}).get(rel): "None" when either lookup misses
RelationOf(w, rel) ==
    IF w \in DOMAIN WUXING_RELATIONS THEN WUXING_RELATIONS[w][rel] ELSE "None"

\* the two reverse checks left out
AnalyzeWuxingForwardOnly(wuxing1, wuxing2) ==
    IF wuxing1 = wuxing2
    THEN [guanxi |-> "bihe", jixiong |-> "ping", shuoming |-> <<"same">>]
    ELSE IF RelationOf(wuxing1, "sheng") = wuxing2
    THEN [guanxi |-> "xiangsheng", jixiong |-> "ji",
          shuoming |-> <<wuxing1, "sheng", wuxing2, "zhugua">>]
    ELSE IF RelationOf(wuxing1, "ke") = wuxing2
    THEN [guanxi |-> "xiangke", jixiong |-> "xiong",
          shuoming |-> <<wuxing1, "ke", wuxing2, "zhugua">>]
    ELSE [guanxi |-> "wuguan", jixiong |-> "ping", shuoming |-> <<"wuguan">>]

analyze_wuxing(wuxing1, wuxing2) ==
    IF wuxing1 = wuxing2
    THEN [guanxi |-> "bihe", jixiong |-> "ping", shuoming |-> <<"same">>]
    ELSE IF RelationOf(wuxing1, "sheng") = wuxing2
    THEN [guanxi |-> "xiangsheng", jixiong |-> "ji",
          shuoming |-> <<wuxing1, "sheng", wuxing2, "zhugua">>]
    ELSE IF RelationOf(wuxing1, "ke") = wuxing2
    THEN [guanxi |-> "xiangke", jixiong |-> "xiong",
          shuoming |-> <<wuxing1, "ke", wuxing2, "zhugua">>]
    ELSE IF RelationOf(wuxing2, "sheng") = wuxing1
    THEN [guanxi |-> "xiangsheng", jixiong |-> "ji",
          shuoming |-> <<wuxing2, "sheng", wuxing1, "yongshen">>]
    ELSE IF RelationOf(wuxing2, "ke") = wuxing1
    THEN [guanxi |-> "xiangke", jixiong |-> "xiong",
          shuoming |-> <<wuxing2, "ke", wuxing1, "yongshen">>]
    ELSE [guanxi |-> "wuguan", jixiong |-> "ping", shuoming |-> <<"wuguan">>]

get_yongshen(wuxing) ==
    IF wuxing \in {"mu", "huo", "tu", "jin", "shui"}
    THEN <<"yongshen", wuxing>>
    ELSE <<"yongshen daiding">>

\* `k in question`: the keyword k occurs as a contiguous run of the question
Contains(question, k) ==
    \E i \in 1..(Len(question) - Len(k) + 1) :
        SubSeq(question, i, i + Len(k) - 1) = k

\* any(k in question for k in keywords)
AnyIn(question, keywords) == \E k \in keywords : Contains(question, k)

\* keyword lists of predict, one token per character:
\* cai=财 qian=钱 shou ru=收入 ying li=盈利; guan=官 sheng zhi=升职
\* shi ye=事业; xue=学 kao=考 shi4=试
\* the wealth keywords without qian
CaiKeywordsWithoutQian == {<<"cai">>, <<"shou", "ru">>, <<"ying", "li">>}

CaiKeywords  == {<<"cai">>, <<"qian">>, <<"shou", "ru">>, <<"ying", "li">>}
GuanKeywords == {<<"guan">>, <<"sheng", "zhi">>, <<"shi", "ye">>}
YinKeywords  == {<<"xue">>, <<"kao">>, <<"shi4">>}

\* a verdict with no tier but balanced
GeneratePredictionBalanced(wuxing_analysis, shang, xia, bian, question) ==
    [jieguo |-> "ping", jieshi |-> <<"pinghe", bian.name>>,
     jianyi |-> "wenzha wenda", zhuyi |-> "jin gong cankao"]

_generate_prediction(wuxing_analysis, shang, xia, bian, question) ==
    LET jixiong == wuxing_analysis.jixiong
        jieguo  == IF jixiong = "ji" THEN "daji"
                   ELSE IF jixiong = "xiong" THEN "xiong" ELSE "ping"
        jieshi  == IF jixiong = "ji" THEN <<"xiangsheng", bian.name>>
                   ELSE IF jixiong = "xiong" THEN <<"xiangke", bian.name>>
                   ELSE <<"pinghe", bian.name>>
        jianyi  == IF jixiong = "ji" THEN "jiji xingdong"
                   ELSE IF jixiong = "xiong" THEN "jinshen xingshi"
                   ELSE "wenzha wenda"
    IN  [jieguo |-> jieguo, jieshi |-> jieshi, jianyi |-> jianyi,
         zhuyi |-> "jin gong cankao"]

\* predict(question, method, **kwargs); now is what datetime.now() reads,
\* r1, r2 the random.randint(1, 8) draws and d the random.randint(1, 6) draw
predict(question, method, kwargs, now, r1, r2, d) ==
    LET year  == DictGet(kwargs, "year", now.year)
        month == DictGet(kwargs, "month", now.month)
        day   == DictGet(kwargs, "day", now.day)
        hour  == DictGet(kwargs, "hour", now.hour)
        direction == DictGet(kwargs, "direction", "dong")
        cast  == IF method = "time" THEN time_to_gua(year, month, day, hour)
                 ELSE IF method = "direction"
                 THEN <<direction_to_gua(direction), r1>>
                 ELSE <<r1, r2>>
        basis == IF method = "time"
                 THEN [year |-> year, month |-> month, day |-> day, hour |-> hour]
                 ELSE IF method = "direction"
                 THEN [direction |-> direction,
                       direction_num |-> DictGet(DIRECTION_TO_NUM, direction, 5)]
                 ELSE [random |-> TRUE]
        shang == cast[1]
        xia   == cast[2]
        bian  == get_gua_number(shang + xia + d)
        shang_detail == get_gua_details(shang)
        xia_detail   == get_gua_details(xia)
        bian_detail  == get_gua_details(bian)
        wuxing_analysis == analyze_wuxing(shang_detail.wuxing, xia_detail.wuxing)
        yongshen == IF AnyIn(question, CaiKeywords) THEN "cai"
                    ELSE IF AnyIn(question, GuanKeywords) THEN "guan"
                    ELSE IF AnyIn(question, YinKeywords) THEN "yin"
                    ELSE "yongshen"
        yongshen_wuxing ==
                    IF AnyIn(question, CaiKeywords) THEN "tu"
                    ELSE IF AnyIn(question, GuanKeywords) THEN "jin"
                    ELSE IF AnyIn(question, YinKeywords) THEN "huo"
                    ELSE shang_detail.wuxing
    IN  [question |-> question,
         method   |-> method,
         basis    |-> basis,
         gua      |-> [zhugua |-> [shanggua |-> shang, xiagua |-> xia,
                                   shanggua_detail |-> shang_detail,
                                   xiagua_detail |-> xia_detail,
                                   guaming |-> <<shang_detail.name, xia_detail.name>>],
                       biangua |-> [dongyao |-> bian,
                                    biangua_detail |-> bian_detail,
                                    bianguaming |-> <<bian_detail.name, bian_detail.name>>]],
         analysis |-> [wuxing_analysis |-> wuxing_analysis,
                       yongshen |-> yongshen,
                       yongshen_wuxing |-> yongshen_wuxing,
                       yongshen_jianyi |-> get_yongshen(yongshen_wuxing)],
         prediction |-> _generate_prediction(wuxing_analysis, shang_detail,
                                             xia_detail, bian_detail, question)]

-----------------------------------------------------------------------------
(* cli.py: the yi command. args holds the options given on the command     *)
(* line; argparse leaves an option that was not given as None.              *)

\* args.key or default: the default also for an option given as 0
ArgOr(args, key, default) ==
    IF key \in DOMAIN args /\ args[key] # 0 THEN args[key] ELSE default

\* cmd_yi_predict(args): the reading handed to format_meihua and printed, or
\* the exit status of sys.exit; now is what datetime.now() reads and r1, r2,
\* d are the draws of meihua.predict
cmd_yi_predict(question, method, args, now, r1, r2, d) ==
    IF method = "time"
    THEN predict(question, method,
                 [year  |-> ArgOr(args, "year", now.year),
                  month |-> ArgOr(args, "month", now.month),
                  day   |-> ArgOr(args, "day", now.day),
                  hour  |-> ArgOr(args, "hour", now.hour)],
                 now, r1, r2, d)
    ELSE IF method = "direction"
    THEN IF "direction" \notin DOMAIN args \/ args.direction = ""
         THEN [exit |-> 1]
         ELSE predict(question, method, [direction |-> args.direction],
                      now, r1, r2, d)
    ELSE predict(question, method, << >>, now, r1, r2, d)

-----------------------------------------------------------------------------
(* Python numbers, as algorithms.py computes with them.                     *)
(*                                                                          *)
(* An int is exact and unbounded: [k |-> "int", h, s] stands for            *)
(* h * 10^400 + s, so that an int beyond the range of a float (h # 0) can    *)
(* be an element of a series. A float is modelled by the exact rational     *)
(* [k |-> "float", n, d] in lowest terms with d > 0: the rounding error of   *)
(* binary floating point (about 1e-16 relative) is not modelled, except      *)
(* that a quotient of two ints keeps only the leading terms when the         *)
(* divisor is beyond float range. A raised exception is                      *)
(* [k |-> "exc", e |-> str(e)]; every operation hands on the exception of    *)
(* its left operand, then of its right operand.                              *)

PyInt(s) == [k |-> "int", h |-> 0, s |-> s]

\* an int too large to convert to float, such as 10**400
HUGE == [k |-> "int", h |-> 1, s |-> 0]

Exc(e) == [k |-> "exc", e |-> e]

IsExc(x) == x.k = "exc"

Abs(a) == IF a < 0 THEN -a ELSE a

RECURSIVE GCD(_, _)
GCD(a, b) == IF b = 0 THEN a ELSE GCD(b, a % b)

PyFloat(n, d) ==
    LET g  == GCD(Abs(n), Abs(d))
        sg == IF d < 0 THEN -1 ELSE 1
    IN  [k |-> "float", n |-> sg * (n \div g), d |-> sg * (d \div g)]

\* float(x) for an int x: OverflowError beyond float range
ToFloat(x) ==
    IF x.k = "float" THEN x
    ELSE IF x.h # 0 THEN Exc("int too large to convert to float")
    ELSE PyFloat(x.s, 1)

\* the first exception among the operands, if any
FirstExc(x, y) == IF IsExc(x) THEN x ELSE y

FloatAdd(x, y) ==
    LET l == (x.d \div GCD(x.d, y.d)) * y.d
    IN  PyFloat(x.n * (l \div x.d) + y.n * (l \div y.d), l)

Neg(x) ==
    IF IsExc(x) THEN x
    ELSE IF x.k = "int" THEN [k |-> "int", h |-> -x.h, s |-> -x.s]
    ELSE PyFloat(-x.n, x.d)

\* x + y
Add(x, y) ==
    IF IsExc(x) \/ IsExc(y) THEN FirstExc(x, y)
    ELSE IF x.k = "int" /\ y.k = "int"
    THEN [k |-> "int", h |-> x.h + y.h, s |-> x.s + y.s]
    ELSE IF IsExc(ToFloat(x)) \/ IsExc(ToFloat(y))
    THEN FirstExc(ToFloat(x), ToFloat(y))
    ELSE FloatAdd(ToFloat(x), ToFloat(y))

\* x - y
Sub(x, y) == Add(x, Neg(y))

\* x * y; the product of two ints is exact (one of them is within float
\* range wherever the code multiplies ints)
Mul(x, y) ==
    IF IsExc(x) \/ IsExc(y) THEN FirstExc(x, y)
    ELSE IF x.k = "int" /\ y.k = "int"
    THEN CASE x.h = 0 -> [k |-> "int", h |-> x.s * y.h, s |-> x.s * y.s]
           [] y.h = 0 /\ x.h # 0 -> [k |-> "int", h |-> x.h * y.s, s |-> x.s * y.s]
    ELSE IF IsExc(ToFloat(x)) \/ IsExc(ToFloat(y))
    THEN FirstExc(ToFloat(x), ToFloat(y))
    ELSE LET a  == ToFloat(x)
             b  == ToFloat(y)
             g1 == GCD(Abs(a.n), b.d)
             g2 == GCD(Abs(b.n), a.d)
         IN  IF a.n = 0 \/ b.n = 0 THEN PyFloat(0, 1)
             ELSE PyFloat((a.n \div g1) * (b.n \div g2), (a.d \div g2) * (b.d \div g1))

IsZero(x) == IF x.k = "int" THEN x.h = 0 /\ x.s = 0 ELSE x.n = 0

\* x / y (true division). int / int is correctly rounded without converting
\* the operands: it overflows only when the quotient is beyond float range.
TrueDiv(x, y) ==
    IF IsExc(x) \/ IsExc(y) THEN FirstExc(x, y)
    ELSE IF x.k = "int" /\ y.k = "int"
    THEN IF IsZero(y) THEN Exc("division by zero")
         ELSE IF y.h # 0 THEN PyFloat(x.h, y.h)
         ELSE IF x.h # 0 THEN Exc("integer division result too large for a float")
         ELSE PyFloat(x.s, y.s)
    ELSE IF IsExc(ToFloat(x)) \/ IsExc(ToFloat(y))
    THEN FirstExc(ToFloat(x), ToFloat(y))
    ELSE IF IsZero(y) THEN Exc("float division by zero")
    ELSE LET a == ToFloat(x)
             b == ToFloat(y)
         IN  Mul(a, PyFloat(b.d, b.n))

\* the sign of x: -1, 0 or 1 (comparisons of an int with a float are exact)
Sign(x) ==
    LET v == IF x.k = "float" THEN x.n ELSE IF x.h # 0 THEN x.h ELSE x.s
    IN  IF v < 0 THEN -1 ELSE IF v > 0 THEN 1 ELSE 0

\* the sign of x - y
Cmp(x, y) ==
    IF x.k = "int" /\ y.k = "int" THEN Sign(Sub(x, y))
    ELSE IF x.k = "int" /\ x.h # 0 THEN Sign(x)
    ELSE IF y.k = "int" /\ y.h # 0 THEN -Sign(y)
    ELSE Sign(Sub(ToFloat(x), ToFloat(y)))

NumEq(x, y) == Cmp(x, y) = 0
NumLt(x, y) == Cmp(x, y) < 0

NumAbs(x) == IF Sign(x) < 0 THEN Neg(x) ELSE x

NumMin(x, y) == IF NumLt(y, x) THEN y ELSE x

RECURSIVE Pow10(_)
Pow10(nd) == IF nd = 0 THEN 1 ELSE 10 * Pow10(nd - 1)

\* floor(q + r/d scaled by 10^nd) and the remainder over d, digit by digit
RECURSIVE Scaled(_, _, _, _)
Scaled(q, r, d, nd) ==
    IF nd = 0 THEN [q |-> q, r |-> r]
    ELSE Scaled(10 * q + (10 * r) \div d, (10 * r) % d, d, nd - 1)

\* round(x, nd): an int is returned as it is; a float goes to the nearest
\* multiple of 10^-nd. Where the rational is exactly halfway between two
\* multiples, the binary float it stands for lies on either side: up says
\* which.
Round(x, nd, up) ==
    IF IsExc(x) \/ x.k = "int" THEN x
    ELSE LET sc == Scaled(x.n \div x.d, x.n % x.d, x.d, nd)
             m  == IF 2 * sc.r < x.d THEN sc.q
                   ELSE IF 2 * sc.r > x.d THEN sc.q + 1
                   ELSE IF up THEN sc.q + 1 ELSE sc.q
         IN  PyFloat(m, Pow10(nd))

\* x is exactly halfway between two multiples of 10^-nd
OnTie(x, nd) ==
    /\ ~IsExc(x)
    /\ x.k = "float"
    /\ 2 * Scaled(x.n \div x.d, x.n % x.d, x.d, nd).r = x.d

\* the round() calls of a call, each with its own tie, and the comparison
\* of the mean change with 0.05 and -0.05: where the mean of two or more
\* changes is exactly 0.05 or -0.05 as a rational, the binary float that the
\* code compares lies on the threshold or outside the band; mean says
\* whether it is outside
TieSites == {"strength", "avg_change_rate", "confidence", "ensemble", "mean"}
Ties == [TieSites -> BOOLEAN]

\* sum(xs), which starts from the int 0
RECURSIVE Sum(_)
Sum(xs) == IF xs = << >> THEN PyInt(0)
           ELSE Add(Sum(SubSeq(xs, 1, Len(xs) - 1)), xs[Len(xs)])

\* len(xs) as a Python int
PyLen(xs) == PyInt(Len(xs))

\* xs[start:] with Python's reading of a negative or oversized start
SliceFrom(xs, start) ==
    LET n == Len(xs)
        b == IF start < 0 THEN (IF n + start < 0 THEN 0 ELSE n + start)
             ELSE (IF start > n THEN n ELSE start)
    IN  SubSeq(xs, b + 1, n)

\* [x] * steps: the empty list when steps <= 0
Repeat(x, steps) == [i \in 1..steps |-> x]

-----------------------------------------------------------------------------
(* algorithms.py: the forecasters. A call returns [k |-> "list", v |-> ...],  *)
(* [k |-> "dict", ...] or the exception it raises.                            *)

PyList(v) == [k |-> "list", v |-> v]

None == [k |-> "none"]

\* [x] * steps, where computing x may have raised
RepeatOrRaise(x, steps) == IF IsExc(x) THEN x ELSE PyList(Repeat(x, steps))

\* a window that ignores the series' length
MovingAverageNoShortCase(window, data, steps) ==
    RepeatOrRaise(TrueDiv(Sum(SliceFrom(data, -window)), PyInt(window)), steps)

\* MovingAverage(window).predict(data, steps)
MovingAverage_predict(window, data, steps) ==
    IF Len(data) < window
    THEN RepeatOrRaise(TrueDiv(Sum(data), PyLen(data)), steps)
    ELSE LET ma == TrueDiv(Sum(SliceFrom(data, -window)), PyInt(window))
         IN  RepeatOrRaise(ma, steps)

\* the two weights of the recurrence exchanged
RECURSIVE SmoothedSwapped(_, _)
SmoothedSwapped(alpha, data) ==
    IF Len(data) = 1 THEN data[1]
    ELSE LET prev == SmoothedSwapped(alpha, SubSeq(data, 1, Len(data) - 1))
             val  == data[Len(data)]
         IN  IF IsExc(prev) THEN prev
             ELSE Add(Mul(alpha, prev), Mul(Sub(PyInt(1), alpha), val))

\* result[-1] once the loop of ExponentialSmoothing.predict has run over a
\* non-empty data
RECURSIVE Smoothed(_, _)
Smoothed(alpha, data) ==
    IF Len(data) = 1 THEN data[1]
    ELSE LET prev == Smoothed(alpha, SubSeq(data, 1, Len(data) - 1))
             val  == data[Len(data)]
         IN  IF IsExc(prev) THEN prev
             ELSE Add(Mul(alpha, val), Mul(Sub(PyInt(1), alpha), prev))

\* the seed returned instead of the final smoothed value
ExponentialSmoothingSeedOnly(alpha, data, steps) ==
    IF data = << >> THEN PyList(Repeat(PyInt(0), steps))
    ELSE RepeatOrRaise(data[1], steps)

\* ExponentialSmoothing(alpha).predict(data, steps)
ExponentialSmoothing_predict(alpha, data, steps) ==
    IF data = << >>
    THEN PyList(Repeat(PyInt(0), steps))
    ELSE RepeatOrRaise(Smoothed(alpha, data), steps)

\* LinearRegression.fit(data) on an instance with fields self: the fields
\* afterwards and the exception raised, if any. An exception leaves the
\* fields not yet assigned as they were.
LinearRegression_fit(self, data) ==
    LET n == Len(data)
    IN  IF n < 2
        THEN LET intercept == TrueDiv(Sum(data), PyInt(n))
             IN  IF IsExc(intercept)
                 THEN [self |-> [self EXCEPT !.slope = PyInt(0)], raised |-> intercept]
                 ELSE [self |-> [slope |-> PyInt(0), intercept |-> intercept],
                       raised |-> None]
        ELSE LET x_mean == TrueDiv(PyInt(n - 1), PyInt(2))
                 y_mean == TrueDiv(Sum(data), PyInt(n))
                 numerator ==
                     Sum([i \in 1..n |->
                            Mul(Sub(PyInt(i - 1), x_mean), Sub(data[i], y_mean))])
                 denominator ==
                     Sum([i \in 1..n |->
                            Mul(Sub(PyInt(i - 1), x_mean), Sub(PyInt(i - 1), x_mean))])
                 slope == IF NumEq(denominator, PyInt(0)) THEN PyInt(0)
                          ELSE TrueDiv(numerator, denominator)
                 intercept == Sub(y_mean, Mul(slope, x_mean))
             IN  IF IsExc(y_mean) THEN [self |-> self, raised |-> y_mean]
                 ELSE IF IsExc(numerator) THEN [self |-> self, raised |-> numerator]
                 ELSE [self |-> [slope |-> slope, intercept |-> intercept],
                       raised |-> None]

\* a forecast at the indices n, n+1, ... that follow the fitted ones
ExtrapolateNextIndex(fit, n, steps) ==
    IF IsExc(fit.raised)
    THEN [self |-> fit.self, result |-> fit.raised]
    ELSE [self |-> fit.self,
          result |-> PyList([i \in 1..steps |->
                        Add(Mul(fit.self.slope, PyInt(n + i - 1)), fit.self.intercept)])]

\* lines 68-69 of LinearRegression.predict, once self.fit(data) has run:
\* n = len(data), then slope * (n + i) + intercept for i in range(1, steps + 1)
Extrapolate(fit, n, steps) ==
    IF IsExc(fit.raised)
    THEN [self |-> fit.self, result |-> fit.raised]
    ELSE [self |-> fit.self,
          result |-> PyList([i \in 1..steps |->
                        Add(Mul(fit.self.slope, PyInt(n + i)), fit.self.intercept)])]

\* a forecast from the fields as the call found them, fitted afterwards
LinearRegressionPredictThenFit(self, data, steps) ==
    [self |-> LinearRegression_fit(self, data).self,
     result |-> Extrapolate([self |-> self, raised |-> None], Len(data), steps).result]

\* LinearRegression.predict(data, steps): the fields afterwards and what the
\* call returns or raises
LinearRegression_predict(self, data, steps) ==
    Extrapolate(LinearRegression_fit(self, data), Len(data), steps)

\* the changes (data[i] - data[i-1]) / data[i-1] over the steps whose
\* predecessor is not 0, in order
RECURSIVE Changes(_)
Changes(data) ==
    IF Len(data) < 2 THEN << >>
    ELSE LET front == SubSeq(data, 1, Len(data) - 1)
             a     == data[Len(data) - 1]
             b     == data[Len(data)]
         IN  IF NumEq(a, PyInt(0)) THEN Changes(front)
             ELSE Append(Changes(front), TrueDiv(Sub(b, a), a))

FirstRaised(xs) ==
    IF \E i \in 1..Len(xs) : IsExc(xs[i])
    THEN xs[CHOOSE i \in 1..Len(xs) :
                IsExc(xs[i]) /\ \A j \in 1..(i - 1) : ~IsExc(xs[j])]
    ELSE None

\* TrendAnalysis.analyze(data) up to its return statement: the values that
\* the returned dict rounds, the early dict, or the exception raised.
\* shangzhang=上涨 xiadie=下跌 zhendang=震荡. volatility is
\* round(sqrt(variance), 4), a square root that a rational does not hold:
\* the field records the changes it is the population standard deviation of.
TrendValues(data) ==
    IF Len(data) < 2
    THEN [k |-> "dict", trend |-> "unknown", strength |-> PyInt(0)]
    ELSE LET changes == Changes(data)
         IN  IF IsExc(FirstRaised(changes)) THEN FirstRaised(changes)
             ELSE IF changes = << >>
             THEN [k |-> "dict", trend |-> "unknown", strength |-> PyInt(0)]
             ELSE LET avg_change == TrueDiv(Sum(changes), PyLen(changes))
                      rising  == NumLt(PyFloat(1, 20), avg_change)
                      falling == NumLt(avg_change, PyFloat(-1, 20))
                      trend == IF rising THEN "shangzhang"
                               ELSE IF falling THEN "xiadie" ELSE "zhendang"
                      strength ==
                          IF rising \/ falling
                          THEN NumMin(Mul(NumAbs(avg_change), PyInt(10)), PyFloat(1, 1))
                          ELSE PyFloat(1, 2)
                      positive == Cardinality({i \in 1..Len(changes) :
                                                  Sign(changes[i]) > 0})
                      negative == Cardinality({i \in 1..Len(changes) :
                                                  Sign(changes[i]) < 0})
                      confidence ==
                          TrueDiv(PyInt(IF positive > negative THEN positive ELSE negative),
                                  PyLen(changes))
                  IN  [k |-> "values",
                       trend |-> trend,
                       on_threshold |-> Len(changes) >= 2
                            /\ NumEq(NumAbs(avg_change), PyFloat(1, 20)),
                       avg_change |-> avg_change,
                       strength |-> strength,
                       avg_change_rate |-> Mul(avg_change, PyInt(100)),
                       volatility |-> <<"round4 pstdev", changes>>,
                       confidence |-> confidence]

\* the return statement of TrendAnalysis.analyze; ties says, for each
\* round() of the returned dict, which way an exact tie goes
TrendDict(v, ties) ==
    IF v.k # "values" THEN v
    ELSE [k |-> "dict",
          trend |-> IF ties.mean /\ v.on_threshold
                    THEN (IF Sign(v.avg_change) > 0 THEN "shangzhang" ELSE "xiadie")
                    ELSE v.trend,
          strength |-> Round(v.strength, 2, ties.strength),
          avg_change_rate |-> Round(v.avg_change_rate, 2, ties.avg_change_rate),
          volatility |-> v.volatility,
          confidence |-> Round(v.confidence, 2, ties.confidence)]

\* TrendAnalysis.analyze(data)
TrendAnalysis_analyze(data, ties) == TrendDict(TrendValues(data), ties)

\* LinearRegression.__init__
InitFields == [slope |-> PyInt(0), intercept |-> PyInt(0)]

\* EnsemblePredictor.__init__: MovingAverage(window=5),
\* ExponentialSmoothing(alpha=0.3)
EnsembleWindow == 5
EnsembleAlpha == PyFloat(3, 10)

PyStr(v) == [k |-> "str", v |-> v]

\* isinstance(x, (int, float))
IsNumeric(x) == x.k \in {"int", "float"}

\* what the try block leaves in predictions[name]: pred[0], or str(e) of
\* the exception raised by algo.predict or by pred[0] on an empty list
Slot(pred) ==
    IF IsExc(pred) THEN PyStr(pred.e)
    ELSE IF pred.v = << >> THEN PyStr("list index out of range")
    ELSE pred.v[1]

\* the weights dict of EnsemblePredictor.predict, in its iteration order
Weights ==
    <<[name |-> "ma", weight |-> PyFloat(3, 10)],
      [name |-> "ema", weight |-> PyFloat(7, 20)],
      [name |-> "linear", weight |-> PyFloat(7, 20)]>>

\* total and weight_sum after the loop over the first j weights
RECURSIVE WeightedLoop(_, _)
WeightedLoop(predictions, j) ==
    IF j = 0 THEN [total |-> PyInt(0), weight_sum |-> PyInt(0)]
    ELSE LET acc == WeightedLoop(predictions, j - 1)
             kw  == Weights[j]
         IN  IF IsNumeric(predictions[kw.name])
             THEN [total |-> Add(acc.total, Mul(predictions[kw.name], kw.weight)),
                   weight_sum |-> Add(acc.weight_sum, kw.weight)]
             ELSE acc

\* a weighted mean over the nominal total of the three weights
WeightedMeanNominal(predictions) ==
    LET acc == WeightedLoop(predictions, Len(Weights))
        nominal == Add(Add(Weights[1].weight, Weights[2].weight), Weights[3].weight)
    IN  IF NumLt(PyInt(0), acc.weight_sum)
        THEN TrueDiv(acc.total, nominal) ELSE PyInt(0)

\* lines 144-152: total / weight_sum if weight_sum > 0 else 0
WeightedMean(predictions) ==
    LET acc == WeightedLoop(predictions, Len(Weights))
    IN  IF IsExc(acc.total) THEN acc.total
        ELSE IF NumLt(PyInt(0), acc.weight_sum)
        THEN TrueDiv(acc.total, acc.weight_sum)
        ELSE PyInt(0)

\* round(ensemble, 2) of the returned dict
Aggregate(predictions, up) == Round(WeightedMean(predictions), 2, up)

\* the guard taken as len(data) < 2
EnoughDataFrom2(data) == Len(data) >= 2

\* the guard of EnsemblePredictor.predict: not (len(data) < 3)
EnoughData(data) == ~(Len(data) < 3)

\* the forecaster loop without its try/except: the first failure is raised
TryEachRaising(ma, ema, linear) ==
    [self |-> linear.self,
     predictions |-> [ma |-> Slot(ma), ema |-> Slot(ema),
                      linear |-> Slot(linear.result)],
     raised |-> IF IsExc(ma) \/ ma.v = << >> THEN Exc(Slot(ma).v)
                ELSE IF IsExc(ema) \/ ema.v = << >> THEN Exc(Slot(ema).v)
                ELSE IF IsExc(linear.result) \/ linear.result.v = << >>
                THEN Exc(Slot(linear.result).v)
                ELSE None]

\* lines 137-142: what each forecaster's call leaves in predictions, every
\* exception caught
TryEach(ma, ema, linear) ==
    [self |-> linear.self,
     predictions |-> [ma |-> Slot(ma), ema |-> Slot(ema),
                      linear |-> Slot(linear.result)],
     raised |-> None]

\* lines 135-142: each forecaster is run once inside its own try/except
Isolate(self, data, steps) ==
    TryEach(MovingAverage_predict(EnsembleWindow, data, steps),
            ExponentialSmoothing_predict(EnsembleAlpha, data, steps),
            LinearRegression_predict(self, data, steps))

\* lines 133-159 once the trend analysis and the forecaster loop have run:
\* an exception of the trend analysis leaves before the forecasters run
Outcome(self, trend_result, run, steps, up) ==
    IF IsExc(trend_result) THEN [self |-> self, result |-> trend_result]
    ELSE IF IsExc(run.raised) THEN [self |-> run.self, result |-> run.raised]
    ELSE IF IsExc(Aggregate(run.predictions, up))
    THEN [self |-> run.self, result |-> Aggregate(run.predictions, up)]
    ELSE [self |-> run.self,
          result |-> [k |-> "dict",
                      trend |-> trend_result,
                      predictions |-> run.predictions,
                      ensemble |-> Aggregate(run.predictions, up),
                      steps |-> steps]]

\* EnsemblePredictor.predict(data, steps) on an instance whose linear model
\* has the fields self: the fields afterwards and what the call returns or
\* raises; ties as in TrendAnalysis_analyze, with the ensemble's round()
EnsemblePredictor_predict(self, data, steps, ties) ==
    IF ~EnoughData(data)
    THEN [self |-> self,
          result |-> [k |-> "dict", error |-> "shujuliang buzu", results |-> << >>]]
    ELSE Outcome(self, TrendAnalysis_analyze(data, ties), Isolate(self, data, steps),
                 steps, ties.ensemble)

-----------------------------------------------------------------------------
(* Inputs of the divination path *)

\* get_gua_number is applied to every integer of -MaxNum..MaxNum
MaxNum == 20

WUXING == {"mu", "huo", "tu", "jin", "shui"}

\* what analyze_wuxing may be handed: the five elements and the element of
\* get_gua_details' fallback entry
WuxingInputs == WUXING \cup {"weizhi"}

YearSet  == {2026, 2027, -1}
MonthSet == {2, 12}
DaySet   == {27, 1}
HourSet  == {0, 10, 23}

\* what datetime.now() may read
Clocks == {[year |-> 2026, month |-> 11, day |-> 1, hour |-> 9],
           [year |-> 2027, month |-> 1, day |-> 31, hour |-> 23]}

KwDom(k) ==
    CASE k = "year"  -> YearSet
      [] k = "month" -> MonthSet
      [] k = "day"   -> DaySet
      [] k = "hour"  -> HourSet

\* keyword arguments of the time method: any subset of the four may be given
TimeKwargs ==
    UNION {{f \in [K -> YearSet \cup MonthSet \cup DaySet \cup HourSet] :
                \A k \in K : f[k] \in KwDom(k)} :
           K \in SUBSET {"year", "month", "day", "hour"}}

\* zhong=中 and the empty string are no keys of DIRECTION_TO_NUM
DirectionTerms == DOMAIN DIRECTION_TO_NUM \cup {"zhong", ""}

DirectionKwargs ==
    UNION {[K -> DirectionTerms] : K \in SUBSET {"direction"}}

Questions ==
    {<< >>,
     <<"tian", "qi">>,
     <<"cai">>,
     <<"shou", "ru">>,
     <<"shou", "xue", "ru">>,
     <<"guan", "qian">>,
     <<"xue", "shi", "ye">>,
     <<"kao", "cai", "guan">>,
     <<"kao">>,
     <<"shi4", "shi">>}

-----------------------------------------------------------------------------
(* Inputs of the forecasting path *)

\* series of up to MaxLen elements are enumerated in full
MaxLen == 3

\* steps ranges over -1..MaxSteps
MaxSteps == 2

\* MovingAverage windows 1..MaxWindow, and the ensemble's window
MaxWindow == 3

\* the elements of an enumerated series: small ints and an int beyond float
\* range
SeriesVals == {PyInt(0), PyInt(1), PyInt(2), HUGE}

PyInts(xs) == [i \in DOMAIN xs |-> PyInt(xs[i])]

\* longer series: the worked examples, and series long enough for the
\* ensemble's window of 5 to leave elements out
ExampleSeries ==
    {PyInts(<<10, 12, 11, 13, 15>>),
     PyInts(<<10, 11, 12, 13>>),
     PyInts(<<0, 2, 4>>),
     PyInts(<<-1, -1, -1, 2>>),
     PyInts(<<3, 1, 2>>),
     PyInts(<<1, 2, 4, 8, 16, 32>>),
     <<HUGE>> \o PyInts(<<1, 2, 3, 4, 5>>),
     PyInts(<<3, 0>>) \o <<HUGE>> \o PyInts(<<5, 4, 3, 2, 1>>)}

SeriesOver(vals) == UNION {[1..n -> vals] : n \in 0..MaxLen}

Series == SeriesOver(SeriesVals) \cup ExampleSeries

\* the series handed to the ensemble, whose instance keeps the fields of
\* its last fit: fewer element values, the same lengths and examples
EnsembleSeries == SeriesOver({PyInt(0), PyInt(1), HUGE}) \cup ExampleSeries

\* the series handed to the trend analysis: also series whose mean change
\* is on or near a threshold of the classification (0.05, -0.05) or of the
\* strength (0.1)
TrendSeries ==
    Series \cup {PyInts(<<20, 21>>),
                 PyInts(<<20, 19>>),
                 PyInts(<<400, 420, 441>>),
                 PyInts(<<45, 12, 22>>),
                 PyInts(<<18, 30, 7>>),
                 PyInts(<<100, 106, 113>>),
                 PyInts(<<10, 11, 12>>),
                 PyInts(<<10, 11, 13>>),
                 PyInts(<<-100, -90, -80>>)}

Steps == (-1)..MaxSteps

Windows == 1..MaxWindow \cup {EnsembleWindow}

\* alpha as the int 1 and as the float 0.3
Alphas == {PyInt(1), EnsembleAlpha}

\* the ties a trend analysis of data can meet: a round() that is not on an
\* exact tie has nothing to choose
TiesOf(v) ==
    {t \in Ties :
        /\ ~t.ensemble
        /\ t.mean => (v.k = "values" /\ v.on_threshold)
        /\ t.strength => (v.k = "values" /\ OnTie(v.strength, 2))
        /\ t.avg_change_rate => (v.k = "values" /\ OnTie(v.avg_change_rate, 2))
        /\ t.confidence => (v.k = "values" /\ OnTie(v.confidence, 2))}

TrendTies(data) == TiesOf(TrendValues(data))

\* the ties an ensemble call on data can meet
EnsembleTies(data, steps) ==
    IF ~EnoughData(data) THEN {[t \in TieSites |-> FALSE]}
    ELSE LET mean == WeightedMean(Isolate(InitFields, data, steps).predictions)
             tt   == TrendTies(data)
         IN  tt \cup (IF OnTie(mean, 2)
                      THEN {[t EXCEPT !.ensemble = TRUE] : t \in tt} ELSE {})

NoCall == [op |-> "none"]


-----------------------------------------------------------------------------
(* The divination path as a state machine: one action per public function *)

CallGetGuaNumber ==
    /\ pc = "idle"
    /\ \E num \in (-MaxNum)..MaxNum :
          last' = [op |-> "get_gua_number", num |-> num,
                   result |-> get_gua_number(num)]
    /\ pc' = "done"
    /\ UNCHANGED <<lr, ens>>

CallAnalyzeWuxing ==
    /\ pc = "idle"
    /\ \E wuxing1 \in WuxingInputs, wuxing2 \in WuxingInputs :
          last' = [op |-> "analyze_wuxing", wuxing1 |-> wuxing1,
                   wuxing2 |-> wuxing2,
                   result |-> analyze_wuxing(wuxing1, wuxing2)]
    /\ pc' = "done"
    /\ UNCHANGED <<lr, ens>>

CallPredictTime ==
    /\ pc = "idle"
    /\ \E question \in Questions, kwargs \in TimeKwargs, now \in Clocks,
          d \in 1..6 :
          last' = [op |-> "predict", question |-> question, method |-> "time",
                   kwargs |-> kwargs, now |-> now, d |-> d,
                   result |-> predict(question, "time", kwargs, now, 1, 1, d)]
    /\ pc' = "done"
    /\ UNCHANGED <<lr, ens>>

CallPredictDirection ==
    /\ pc = "idle"
    /\ \E question \in Questions, kwargs \in DirectionKwargs,
          r1 \in 1..8, d \in 1..6 :
          last' = [op |-> "predict", question |-> question,
                   method |-> "direction", kwargs |-> kwargs, r1 |-> r1, d |-> d,
                   result |-> predict(question, "direction", kwargs,
                                      CHOOSE c \in Clocks : TRUE, r1, 1, d)]
    /\ pc' = "done"
    /\ UNCHANGED <<lr, ens>>

CallPredictRandom ==
    /\ pc = "idle"
    /\ \E question \in Questions, r1 \in 1..8, r2 \in 1..8, d \in 1..6 :
          last' = [op |-> "predict", question |-> question,
                   method |-> "random", kwargs |-> << >>,
                   r1 |-> r1, r2 |-> r2, d |-> d,
                   result |-> predict(question, "random", << >>,
                                      CHOOSE c \in Clocks : TRUE, r1, r2, d)]
    /\ pc' = "done"
    /\ UNCHANGED <<lr, ens>>

\* the call's result is handed to the caller; instance fields stay
Return ==
    /\ pc = "done"
    /\ pc' = "idle"
    /\ last' = NoCall
    /\ UNCHANGED <<lr, ens>>

Init ==
    /\ pc = "idle"
    /\ last = NoCall
    /\ lr = InitFields
    /\ ens = InitFields

NextMeihua ==
    \/ CallGetGuaNumber
    \/ CallAnalyzeWuxing
    \/ CallPredictTime
    \/ CallPredictDirection
    \/ CallPredictRandom
    \/ Return

SpecMeihua == Init /\ [][NextMeihua]_vars

-----------------------------------------------------------------------------
(* The yi command as a state machine: one action per casting method *)

CallYiTime ==
    /\ pc = "idle"
    /\ \E question \in Questions, args \in TimeKwargs, now \in Clocks,
          d \in 1..6 :
          last' = [op |-> "yi", question |-> question, method |-> "time",
                   args |-> args, now |-> now, d |-> d,
                   result |-> cmd_yi_predict(question, "time", args, now, 1, 1, d)]
    /\ pc' = "done"
    /\ UNCHANGED <<lr, ens>>

CallYiDirection ==
    /\ pc = "idle"
    /\ \E question \in Questions, args \in DirectionKwargs,
          r1 \in 1..8, d \in 1..6 :
          last' = [op |-> "yi", question |-> question, method |-> "direction",
                   args |-> args, r1 |-> r1, d |-> d,
                   result |-> cmd_yi_predict(question, "direction", args,
                                             CHOOSE c \in Clocks : TRUE, r1, 1, d)]
    /\ pc' = "done"
    /\ UNCHANGED <<lr, ens>>

CallYiRandom ==
    /\ pc = "idle"
    /\ \E question \in Questions, r1 \in 1..8, r2 \in 1..8, d \in 1..6 :
          last' = [op |-> "yi", question |-> question, method |-> "random",
                   args |-> << >>, r1 |-> r1, r2 |-> r2, d |-> d,
                   result |-> cmd_yi_predict(question, "random", << >>,
                                             CHOOSE c \in Clocks : TRUE, r1, r2, d)]
    /\ pc' = "done"
    /\ UNCHANGED <<lr, ens>>

NextCli ==
    \/ CallYiTime
    \/ CallYiDirection
    \/ CallYiRandom
    \/ Return

SpecCli == Init /\ [][NextCli]_vars

-----------------------------------------------------------------------------
(* The forecasting path as state machines: the stateless forecasters, a   *)
(* LinearRegression instance, and an EnsemblePredictor instance            *)

CallMovingAverage ==
    /\ pc = "idle"
    /\ \E window \in Windows, data \in Series, steps \in Steps :
          last' = [op |-> "MovingAverage.predict", window |-> window,
                   data |-> data, steps |-> steps,
                   result |-> MovingAverage_predict(window, data, steps)]
    /\ pc' = "done"
    /\ UNCHANGED <<lr, ens>>

CallExponentialSmoothing ==
    /\ pc = "idle"
    /\ \E alpha \in Alphas, data \in Series, steps \in Steps :
          last' = [op |-> "ExponentialSmoothing.predict", alpha |-> alpha,
                   data |-> data, steps |-> steps,
                   result |-> ExponentialSmoothing_predict(alpha, data, steps)]
    /\ pc' = "done"
    /\ UNCHANGED <<lr, ens>>

CallTrendAnalysis ==
    /\ pc = "idle"
    /\ \E data \in TrendSeries :
       \E ties \in TrendTies(data) :
          last' = [op |-> "TrendAnalysis.analyze", data |-> data, ties |-> ties,
                   result |-> TrendAnalysis_analyze(data, ties)]
    /\ pc' = "done"
    /\ UNCHANGED <<lr, ens>>

CallLinearRegression ==
    /\ pc = "idle"
    /\ \E data \in Series, steps \in Steps :
       \E call \in {LinearRegression_predict(lr, data, steps)} :
          /\ lr' = call.self
          /\ last' = [op |-> "LinearRegression.predict", data |-> data,
                      steps |-> steps, result |-> call.result]
    /\ pc' = "done"
    /\ UNCHANGED ens

CallEnsemble ==
    /\ pc = "idle"
    /\ \E data \in EnsembleSeries, steps \in Steps :
       \E ties \in EnsembleTies(data, steps) :
       \E call \in {EnsemblePredictor_predict(ens, data, steps, ties)} :
          /\ ens' = call.self
          /\ last' = [op |-> "EnsemblePredictor.predict", data |-> data,
                      steps |-> steps, result |-> call.result]
    /\ pc' = "done"
    /\ UNCHANGED lr

NextSmoothing ==
    \/ CallMovingAverage
    \/ CallExponentialSmoothing
    \/ CallTrendAnalysis
    \/ Return

SpecSmoothing == Init /\ [][NextSmoothing]_vars

NextLinear ==
    \/ CallLinearRegression
    \/ Return

SpecLinear == Init /\ [][NextLinear]_vars

NextEnsemble ==
    \/ CallEnsemble
    \/ Return

SpecEnsemble == Init /\ [][NextEnsemble]_vars

\* A LinearRegression instance and an EnsemblePredictor instance share no
\* state: a call on one neither reads nor writes the fields of the other.
\* A behaviour follows the calls made on one of the two instances, the other
\* one as constructed.
NextInstances ==
    \/ ens = InitFields /\ CallLinearRegression
    \/ lr = InitFields /\ CallEnsemble
    \/ Return

SpecInstances == Init /\ [][NextInstances]_vars

Next ==
    \/ NextMeihua
    \/ NextCli
    \/ NextSmoothing
    \/ NextLinear
    \/ NextEnsemble

Spec == Init /\ [][Next]_vars

-----------------------------------------------------------------------------
(* Properties of the divination path, checked under SpecMeihua *)

\* C1: for every integer num, get_gua_number(num) = ((num-1) mod 8) + 1 lies
\* in 1..8, differs from num by a multiple of 8, and equals
\* get_gua_number(num + 8).
C1_GuaNumberInRange ==
    (pc = "done" /\ last.op = "get_gua_number") =>
        /\ last.result \in 1..8
        /\ \E q \in (-MaxNum - 1)..(MaxNum + 1) : last.num = 8 * q + last.result
        /\ last.result = get_gua_number(last.num + 8)

\* C1 witness: a negative multiple of 8 has been normalised to 8
C1_Witness ==
    /\ pc = "done"
    /\ last.op = "get_gua_number"
    /\ last.num = -8
    /\ last.result = 8

\* the year, month, day, hour a time-method call works on: the keyword
\* argument when given, else the clock's reading
Given(k) == IF k \in DOMAIN last.kwargs THEN last.kwargs[k] ELSE last.now[k]

TimeCall == pc = "done" /\ last.op = "predict" /\ last.method = "time"

\* C2: a time-method call reports upper = norm(year+month+day) and
\* lower = norm(year+month+day+hour): both are in 1..8 and congruent to
\* those sums modulo 8 whatever the draw d is, and the basis records the
\* four inputs; year=2026, month=2, day=27, hour=10 gives upper 7, lower 1.
C2_TimeCastingDeterministic ==
    TimeCall =>
        LET ymd   == Given("year") + Given("month") + Given("day")
            shang == last.result.gua.zhugua.shanggua
            xia   == last.result.gua.zhugua.xiagua
        IN  /\ shang \in 1..8
            /\ xia \in 1..8
            /\ (shang - ymd) % 8 = 0
            /\ (xia - (ymd + Given("hour"))) % 8 = 0
            /\ last.result.basis = [year |-> Given("year"), month |-> Given("month"),
                                    day |-> Given("day"), hour |-> Given("hour")]
            /\ (last.result.basis = [year |-> 2026, month |-> 2, day |-> 27, hour |-> 10]
                    => shang = 7 /\ xia = 1)

\* C2 witness: the worked example has been cast, with the largest draw
C2_Witness ==
    /\ TimeCall
    /\ last.kwargs = [year |-> 2026, month |-> 2, day |-> 27, hour |-> 10]
    /\ last.d = 6
    /\ last.result.gua.zhugua.shanggua = 7
    /\ last.result.gua.zhugua.xiagua = 1

\* the five conditions of analyze_wuxing, read off WUXING_RELATIONS
WuxingConditions(e1, e2) ==
    {c \in {"parity", "e1 generates e2", "e1 restrains e2",
            "e2 generates e1", "e2 restrains e1"} :
        CASE c = "parity"          -> e1 = e2
          [] c = "e1 generates e2" -> WUXING_RELATIONS[e1].sheng = e2
          [] c = "e1 restrains e2" -> WUXING_RELATIONS[e1].ke = e2
          [] c = "e2 generates e1" -> WUXING_RELATIONS[e2].sheng = e1
          [] c = "e2 restrains e1" -> WUXING_RELATIONS[e2].ke = e1}

\* C3: over the 25 ordered pairs of the five elements exactly one of the
\* five conditions holds, analyze_wuxing reports the relation of that
\* condition (parity for equal elements) and never the fallback wuguan.
C3_WuxingTotal ==
    (pc = "done" /\ last.op = "analyze_wuxing"
        /\ last.wuxing1 \in WUXING /\ last.wuxing2 \in WUXING) =>
        LET conds == WuxingConditions(last.wuxing1, last.wuxing2)
        IN  /\ Cardinality(conds) = 1
            /\ last.result.guanxi # "wuguan"
            /\ (last.wuxing1 = last.wuxing2 <=> last.result.guanxi = "bihe")
            /\ (conds \subseteq {"e1 generates e2", "e2 generates e1"}
                    <=> last.result.guanxi = "xiangsheng")
            /\ (conds \subseteq {"e1 restrains e2", "e2 restrains e1"}
                    <=> last.result.guanxi = "xiangke")

\* C3 witness: a pair decided by a reverse check (shui generates mu)
C3_Witness ==
    /\ pc = "done"
    /\ last.op = "analyze_wuxing"
    /\ last.wuxing1 = "mu"
    /\ last.wuxing2 = "shui"
    /\ last.result.guanxi = "xiangsheng"
    /\ last.result.shuoming = <<"shui", "sheng", "mu", "yongshen">>

-----------------------------------------------------------------------------
(* Properties of the ensemble, checked under SpecEnsemble *)

EnsembleCall == pc = "done" /\ last.op = "EnsemblePredictor.predict"

InsufficientData ==
    [k |-> "dict", error |-> "shujuliang buzu", results |-> << >>]

\* C4: a call of EnsemblePredictor.predict on fewer than 3 points does not
\* raise: it returns the insufficient-data dict with an empty results map,
\* and no forecaster has run (the fields of the linear model are untouched).
C4_InsufficientDataReturned ==
    [][(pc = "idle" /\ pc' = "done"
            /\ last'.op = "EnsemblePredictor.predict" /\ Len(last'.data) < 3)
        => (last'.result = InsufficientData /\ ens' = ens)]_vars

\* C4 witness: a two-point series holding an int beyond float range has been
\* answered with the insufficient-data dict by an instance used before
C4_Witness ==
    /\ EnsembleCall
    /\ last.data = <<HUGE, PyInt(0)>>
    /\ last.result = InsufficientData
    /\ ens # InitFields

\* the call returned the full result dict
EnsembleReturned ==
    /\ EnsembleCall
    /\ last.result.k = "dict"
    /\ "predictions" \in DOMAIN last.result

Models == {"ma", "ema", "linear"}

\* the weights the claim names, in hundredths
ClaimedWeight(m) == IF m = "ma" THEN 30 ELSE 35

\* C5: the ensemble scalar is sum(weight * value) over the numeric slots
\* divided by the sum of the weights of exactly those slots (ma 0.30,
\* ema 0.35, linear 0.35), rounded to 2 decimals: a multiple of 0.01 within
\* 0.005 of that quotient; it is the int 0 when no slot is numeric.
C5_EnsembleOverRealizedWeights ==
    EnsembleReturned =>
        LET slots   == last.result.predictions
            numeric == {m \in Models : IsNumeric(slots[m])}
            Term(m) == IF m \in numeric
                       THEN Mul(PyFloat(ClaimedWeight(m), 100), slots[m])
                       ELSE PyFloat(0, 1)
            W(m)    == IF m \in numeric THEN ClaimedWeight(m) ELSE 0
            wsum    == W("ma") + W("ema") + W("linear")
            total   == Add(Add(Term("ma"), Term("ema")), Term("linear"))
            e       == last.result.ensemble
        IN  IF numeric = {} THEN e = PyInt(0)
            ELSE /\ e.k = "float"
                 /\ 100 % e.d = 0
                 /\ ~NumLt(PyFloat(1, 200),
                           NumAbs(Sub(TrueDiv(total, PyFloat(wsum, 100)), e)))

\* C5 witness: only the moving average produced a number (3.0), and the
\* ensemble is that number, not 0.3 * 3.0 over the nominal total
C5_Witness ==
    /\ EnsembleReturned
    /\ last.result.predictions.ma = PyFloat(3, 1)
    /\ last.result.predictions.ema.k = "str"
    /\ last.result.predictions.linear.k = "str"
    /\ last.result.ensemble = PyFloat(3, 1)

\* what a forecaster called on its own returns or raises for the call's
\* arguments (the linear model on a fresh instance)
Alone(m) ==
    CASE m = "ma" -> MovingAverage_predict(EnsembleWindow, last.data, last.steps)
      [] m = "ema" -> ExponentialSmoothing_predict(EnsembleAlpha, last.data, last.steps)
      [] m = "linear" -> LinearRegression_predict(InitFields, last.data, last.steps).result

\* the forecaster raises, or taking its first forecast step does
Fails(m) == IsExc(Alone(m)) \/ Alone(m).v = << >>

-----------------------------------------------------------------------------
(* Properties of LinearRegression, checked under SpecLinear *)

\* the call returned a list
LinearReturned ==
    /\ pc = "done"
    /\ last.op = "LinearRegression.predict"
    /\ last.result.k = "list"

\* data are ints within float range that rise by the same step m throughout
ConstantStep(data, m) ==
    /\ Len(data) >= 2
    /\ \A i \in 1..Len(data) : data[i].k = "int" /\ data[i].h = 0
    /\ \A i \in 2..Len(data) : data[i].s - data[i - 1].s = m

\* C7 as claimed: horizon i (from 1) is forecast as slope*(n+i-1) +
\* intercept with the fitted slope and intercept, and on a series of exact
\* constant step m the slope is m and the horizon-1 forecast is last + m.
C7_HorizonAtNextIndex ==
    LinearReturned =>
        LET n == Len(last.data)
        IN  /\ \A i \in 1..Len(last.result.v) :
                   last.result.v[i] =
                       Add(Mul(lr.slope, PyInt(n + i - 1)), lr.intercept)
            /\ \A m \in -1..2 :
                   (ConstantStep(last.data, m) /\ last.steps >= 1) =>
                        /\ NumEq(lr.slope, PyInt(m))
                        /\ NumEq(last.result.v[1], PyInt(last.data[n].s + m))

WorkedSeries == PyInts(<<10, 12, 11, 13, 15>>)

WorkedLinear == LinearReturned /\ last.data = WorkedSeries /\ last.steps = 1

\* x rounds to tenths/10 at one decimal place, whichever way a tie goes
RoundsTo1(x, tenths) ==
    \A up \in BOOLEAN : Round(x, 1, up) = PyFloat(tenths, 10)

-----------------------------------------------------------------------------
(* Properties of ExponentialSmoothing, checked under SpecSmoothing *)

SmoothingReturned ==
    /\ pc = "done"
    /\ last.op = "ExponentialSmoothing.predict"
    /\ last.result.k = "list"

WorkedSmoothing ==
    /\ pc = "done"
    /\ last.op = "ExponentialSmoothing.predict"
    /\ last.alpha = PyFloat(3, 10)
    /\ last.data = WorkedSeries
    /\ last.steps = 1

\* x rounds to hundredths/100 at two decimal places, whichever way a tie goes
RoundsTo2(x, hundredths) ==
    \A up \in BOOLEAN : Round(x, 2, up) = PyFloat(hundredths, 100)

\* C9 as claimed: on [10,12,11,13,15] with steps=1 and alpha=0.3 the
\* forecast is 12.98 to two decimal places.
C9_WorkedExampleAsClaimed ==
    WorkedSmoothing =>
        /\ last.result.k = "list"
        /\ Len(last.result.v) = 1
        /\ RoundsTo2(last.result.v[1], 1298)

\* the recurrence s0 = x0, s_i = 0.3*x_i + 0.7*s_(i-1) over ints, in units
\* of 10^-(number of steps taken)
RECURSIVE Recurrence(_)
Recurrence(xs) ==
    IF Len(xs) = 1 THEN xs[1]
    ELSE 3 * xs[Len(xs)] * Pow10(Len(xs) - 2)
            + 7 * Recurrence(SubSeq(xs, 1, Len(xs) - 1))

\* C9 amended: on [10,12,11,13,15] with steps=1 and alpha=0.3 the forecast
\* is 12.48 to two decimal places: the single value 12.4828 that seeding
\* s0 = series[0] and applying s_i = alpha*x_i + (1-alpha)*s_(i-1) over the
\* remaining points gives.
C9_WorkedExample ==
    WorkedSmoothing =>
        /\ last.result.k = "list"
        /\ Len(last.result.v) = 1
        /\ RoundsTo2(last.result.v[1], 1248)
        /\ last.result.v[1] = PyFloat(Recurrence(<<10, 12, 11, 13, 15>>), Pow10(4))

\* C9 witness: the worked example has been smoothed to 12.4828
C9_Witness ==
    /\ WorkedSmoothing
    /\ last.result.v = <<PyFloat(124828, 10000)>>

\* C10: with alpha = 1, on a non-empty series and steps >= 1, the call
\* returns steps elements, each exactly the last observation.
C10_AlphaOneIsLastObservation ==
    (pc = "done" /\ last.op = "ExponentialSmoothing.predict"
        /\ last.alpha = PyInt(1) /\ last.data # << >> /\ last.steps >= 1) =>
        /\ last.result.k = "list"
        /\ Len(last.result.v) = last.steps
        /\ \A i \in 1..last.steps : last.result.v[i] = last.data[Len(last.data)]

\* C10 witness: a series whose last observation differs from the earlier
\* ones, one of them beyond float range, has been forecast twice over
C10_Witness ==
    /\ SmoothingReturned
    /\ last.alpha = PyInt(1)
    /\ last.data = <<PyInt(1), HUGE, PyInt(2)>>
    /\ last.steps = 2
    /\ last.result.v = <<PyInt(2), PyInt(2)>>

-----------------------------------------------------------------------------
(* Properties of MovingAverage, checked under SpecSmoothing *)

MovingAverageCall ==
    /\ pc = "done"
    /\ last.op = "MovingAverage.predict"
    /\ last.data # << >>
    /\ last.window >= 1
    /\ last.steps >= 0

\* the elements the forecast averages: the whole series when it is shorter
\* than the window, else its last window elements
Averaged(data, window) ==
    IF Len(data) < window THEN data
    ELSE SubSeq(data, Len(data) - window + 1, Len(data))

\* v is the mean of xs: v * len(xs) = sum(xs)
IsMeanOf(v, xs) == ~IsExc(v) /\ NumEq(Mul(v, PyLen(xs)), Sum(xs))

\* every element of the series is within float range
WithinFloatRange(data) == \A i \in 1..Len(data) : data[i].h = 0

\* what C11 says of a returned value
MovingAverageAsClaimed ==
    /\ last.result.k = "list"
    /\ Len(last.result.v) = last.steps
    /\ \A i \in 1..last.steps :
          /\ last.result.v[i] = last.result.v[1]
          /\ IsMeanOf(last.result.v[i], Averaged(last.data, last.window))
    /\ (last.data = WorkedSeries /\ last.window = 5 /\ last.steps >= 1
            => last.result.v[1] = PyFloat(122, 10))

\* C11: for every non-empty series, window >= 1 and steps >= 0,
\* MovingAverage(window).predict returns a list of exactly steps elements,
\* all equal; the common value is mean(series) when len(series) < window
\* and the mean of the last window elements otherwise (12.2 for
\* [10,12,11,13,15] with window 5).
C11_MovingAverageConstant == MovingAverageCall => MovingAverageAsClaimed

\* the same on the series whose elements are all within float range
MovingAverageWithinFloatRange ==
    (MovingAverageCall /\ WithinFloatRange(last.data)) => MovingAverageAsClaimed

-----------------------------------------------------------------------------
(* Properties of TrendAnalysis, checked under SpecSmoothing *)

TrendCall == pc = "done" /\ last.op = "TrendAnalysis.analyze"

\* the call returned a classification: a dict whose trend is not unknown
TrendClassified ==
    /\ TrendCall
    /\ last.result.k = "dict"
    /\ last.result.trend # "unknown"

\* a strictly increasing series in which every step's gain
\* (x[i] - x[i-1]) / x[i-1] is above 5%: 20 * x[i] > 21 * x[i-1] > 0
SteadyGain(data) ==
    /\ Len(data) >= 2
    /\ \A i \in 2..Len(data) :
          /\ NumLt(data[i - 1], data[i])
          /\ NumLt(PyInt(0), data[i - 1])
          /\ NumLt(Mul(PyInt(21), data[i - 1]), Mul(PyInt(20), data[i]))

\* the mean change m of a classified series, as a rational
MeanChange(data) == TrueDiv(Sum(Changes(data)), PyLen(Changes(data)))

\* the mean change the code compares is the binary float of m: when m is on
\* a threshold, last.ties.mean says that the float lies outside the band
FloatAbove(m, threshold) ==
    NumLt(threshold, m) \/ (NumEq(m, threshold) /\ last.ties.mean)

FloatBelow(m, threshold) ==
    NumLt(m, threshold) \/ (NumEq(m, threshold) /\ last.ties.mean)

\* rising iff m > 0.05, falling iff m < -0.05, oscillating otherwise
ClassifiedByMean ==
    TrendClassified =>
        LET m == MeanChange(last.data)
        IN  /\ last.result.trend \in {"shangzhang", "xiadie", "zhendang"}
            /\ last.result.trend = "shangzhang" <=> FloatAbove(m, PyFloat(1, 20))
            /\ last.result.trend = "xiadie" <=> FloatBelow(m, PyFloat(-1, 20))
            /\ (~last.ties.mean /\ NumEq(NumAbs(m), PyFloat(1, 20)))
                    => last.result.trend = "zhendang"

\* rising, and strength 1.0 once the mean change is at least 0.1
RisingAsClaimed ==
    /\ TrendClassified
    /\ last.result.trend = "shangzhang"
    /\ ~NumLt(MeanChange(last.data), PyFloat(1, 10))
            => last.result.strength = PyFloat(1, 1)

\* C12: on a strictly increasing series in which every step's gain is above
\* 5% the call returns trend rising, with strength 1.0 once the mean change
\* is at least 0.1; in general the trend is rising iff the mean change m is
\* above 0.05, falling iff m is below -0.05 and oscillating otherwise, so
\* that m exactly 0.05 or -0.05 is oscillating.
C12_TrendClassification ==
    /\ (TrendCall /\ SteadyGain(last.data)) => RisingAsClaimed
    /\ ClassifiedByMean

\* the same on the series whose elements are all within float range
TrendClassificationWithinFloatRange ==
    /\ (TrendCall /\ SteadyGain(last.data) /\ WithinFloatRange(last.data))
            => RisingAsClaimed
    /\ ClassifiedByMean

\* the dict returned when there is nothing to classify
UnknownTrend == [k |-> "dict", trend |-> "unknown", strength |-> PyInt(0)]

\* every step of the series has the predecessor value 0
EveryStepSkipped(data) == \A i \in 2..Len(data) : NumEq(data[i - 1], PyInt(0))

\* what C13 says of a call
NeverRaisesAsClaimed ==
    /\ ~IsExc(last.result)
    /\ Len(last.data) < 2 => last.result = UnknownTrend
    /\ (Len(last.data) >= 2 /\ EveryStepSkipped(last.data))
            => last.result = UnknownTrend
    /\ (Len(last.data) >= 2 /\ ~EveryStepSkipped(last.data))
            => last.result # UnknownTrend

\* C13: TrendAnalysis.analyze never raises on a numeric series: with fewer
\* than 2 points it returns {trend: unknown, strength: 0}; otherwise every
\* step whose predecessor value is 0 is skipped, so that no division by
\* zero occurs, and if every step is skipped it returns
\* {trend: unknown, strength: 0} as well.
C13_TrendNeverRaises == TrendCall => NeverRaisesAsClaimed

\* the same on the series whose elements are all within float range
TrendNeverRaisesWithinFloatRange ==
    (TrendCall /\ WithinFloatRange(last.data)) => NeverRaisesAsClaimed

\* whatever is raised, it is not a division by zero
TrendNeverDividesByZero ==
    (TrendCall /\ IsExc(last.result)) =>
        last.result.e \notin {"division by zero", "float division by zero"}

-----------------------------------------------------------------------------
(* Further properties of the divination path, checked under SpecMeihua *)

PredictCall == pc = "done" /\ last.op = "predict"

DirectionCall == PredictCall /\ last.method = "direction"

\* C14: a direction-method call whose direction term is no key of the
\* direction lookup does not fail: the numeric code defaults to 5, the upper
\* trigram is norm(5) = 5, the basis records the term as given and the code
\* 5, and the lower trigram is the draw, a value in 1..8.
C14_UnknownDirectionDefaults ==
    (DirectionCall /\ "direction" \in DOMAIN last.kwargs
        /\ last.kwargs.direction \notin DOMAIN DIRECTION_TO_NUM) =>
        /\ last.result.gua.zhugua.shanggua = 5
        /\ last.result.basis = [direction |-> last.kwargs.direction,
                                direction_num |-> 5]
        /\ last.result.gua.zhugua.xiagua \in 1..8
        /\ last.result.gua.zhugua.xiagua = last.r1
        /\ last.result.gua.zhugua.shanggua_detail = BAGUA[5]

\* C14 witness: the unknown term zhong has been cast as trigram 5 over the
\* drawn lower trigram 8
C14_Witness ==
    /\ DirectionCall
    /\ last.kwargs = [direction |-> "zhong"]
    /\ last.r1 = 8
    /\ last.result.gua.zhugua.shanggua = 5
    /\ last.result.gua.zhugua.xiagua = 8
    /\ last.result.basis.direction_num = 5

\* the question mentions one of the terms: wealth 财 钱 收入 盈利, career
\* 官 升职 事业, study 学 考 试
Mentions(question, terms) ==
    \E t \in terms : \E i \in 1..Len(question) :
        /\ i + Len(t) - 1 <= Len(question)
        /\ \A j \in 1..Len(t) : question[i + j - 1] = t[j]

WealthTerms == {<<"cai">>, <<"qian">>, <<"shou", "ru">>, <<"ying", "li">>}
CareerTerms == {<<"guan">>, <<"sheng", "zhi">>, <<"shi", "ye">>}
StudyTerms  == {<<"xue">>, <<"kao">>, <<"shi4">>}

\* C15: the target-spirit element follows a fixed keyword priority: Earth
\* (tu) if the question mentions a wealth term, whatever else it mentions;
\* else Metal (jin) if it mentions a career term, also when it mentions a
\* study term; else Fire (huo) if it mentions a study term; else the upper
\* trigram's own element.
C15_KeywordPriority ==
    PredictCall =>
        LET q      == last.question
            target == last.result.analysis.yongshen_wuxing
        IN  /\ Mentions(q, WealthTerms) => target = "tu"
            /\ (~Mentions(q, WealthTerms) /\ Mentions(q, CareerTerms))
                    => target = "jin"
            /\ (~Mentions(q, WealthTerms) /\ ~Mentions(q, CareerTerms)
                    /\ Mentions(q, StudyTerms)) => target = "huo"
            /\ (~Mentions(q, WealthTerms) /\ ~Mentions(q, CareerTerms)
                    /\ ~Mentions(q, StudyTerms))
                    => target = BAGUA[last.result.gua.zhugua.shanggua].wuxing

\* C15 witness: a question that mentions a career term and then a wealth
\* term (guan, qian) has been read with target Earth under an upper trigram
\* of another element
C15_Witness ==
    /\ PredictCall
    /\ last.question = <<"guan", "qian">>
    /\ last.result.analysis.yongshen_wuxing = "tu"
    /\ last.result.analysis.yongshen = "cai"
    /\ last.result.gua.zhugua.shanggua_detail.wuxing = "mu"

\* element a generates, restrains element b
Generates(a, b) == WUXING_RELATIONS[a].sheng = b
Restrains(a, b) == WUXING_RELATIONS[a].ke = b

\* the reading of the last call's casting for another question: the same
\* method, keyword arguments, clock and draws
Recast(question) ==
    CASE last.method = "time" ->
            predict(question, "time", last.kwargs, last.now, 1, 1, last.d)
      [] last.method = "direction" ->
            predict(question, "direction", last.kwargs,
                    CHOOSE c \in Clocks : TRUE, last.r1, 1, last.d)
      [] last.method = "random" ->
            predict(question, "random", << >>,
                    CHOOSE c \in Clocks : TRUE, last.r1, last.r2, last.d)

\* a reading of the same upper and lower trigrams as the last call's carries
\* the same relation judgement and the same tier
SameVerdict(other) ==
    (/\ other.gua.zhugua.shanggua = last.result.gua.zhugua.shanggua
     /\ other.gua.zhugua.xiagua = last.result.gua.zhugua.xiagua)
    => /\ other.analysis.wuxing_analysis = last.result.analysis.wuxing_analysis
       /\ other.prediction.jieguo = last.result.prediction.jieguo

\* C16: the verdict tier is a function of the upper and lower trigram
\* elements only: daji when one of the two generates the other, xiong when
\* one restrains the other, ping when they are equal; a reading of the same
\* upper and lower trigrams for any other question, whatever its target
\* element, carries the same relation judgement and the same tier.
C16_TierFromTrigramsOnly ==
    PredictCall =>
        LET e1   == BAGUA[last.result.gua.zhugua.shanggua].wuxing
            e2   == BAGUA[last.result.gua.zhugua.xiagua].wuxing
            tier == last.result.prediction.jieguo
            judgement == last.result.analysis.wuxing_analysis
        IN  /\ (Generates(e1, e2) \/ Generates(e2, e1))
                    => (tier = "daji" /\ judgement.guanxi = "xiangsheng")
            /\ (Restrains(e1, e2) \/ Restrains(e2, e1))
                    => (tier = "xiong" /\ judgement.guanxi = "xiangke")
            /\ e1 = e2 => (tier = "ping" /\ judgement.guanxi = "bihe")
            /\ \A q \in Questions : SameVerdict(Recast(q))

\* C16 witness: wood over fire has been read as daji for a wealth question,
\* whose target is Earth, and the same casting reads its study question with
\* target Fire
C16_Witness ==
    /\ PredictCall
    /\ last.question = <<"cai">>
    /\ last.result.gua.zhugua.shanggua_detail.wuxing = "mu"
    /\ last.result.gua.zhugua.xiagua_detail.wuxing = "huo"
    /\ last.result.analysis.yongshen_wuxing = "tu"
    /\ last.result.prediction.jieguo = "daji"
    /\ Recast(<<"kao">>).analysis.yongshen_wuxing = "huo"
    /\ Recast(<<"kao">>).prediction.jieguo = "daji"

\* C17: whatever the casting method (time with any integer year, month, day
\* and hour, direction with any term, random) and whatever the draws, the
\* upper, lower and mutation trigrams of the result lie in 1..8, the
\* mutation trigram is norm(upper + lower + d) for the draw d in 1..6, the
\* details are the BAGUA entries and never the unknown fallback, and the
\* elements handed to analyze_wuxing are among the five elements.
C17_TrigramsInRange ==
    PredictCall =>
        LET zhugua  == last.result.gua.zhugua
            biangua == last.result.gua.biangua
        IN  /\ zhugua.shanggua \in 1..8
            /\ zhugua.xiagua \in 1..8
            /\ biangua.dongyao \in 1..8
            /\ last.d \in 1..6
            /\ (biangua.dongyao - (zhugua.shanggua + zhugua.xiagua + last.d)) % 8 = 0
            /\ zhugua.shanggua_detail = BAGUA[zhugua.shanggua]
            /\ zhugua.xiagua_detail = BAGUA[zhugua.xiagua]
            /\ biangua.biangua_detail = BAGUA[biangua.dongyao]
            /\ "weizhi" \notin {zhugua.shanggua_detail.name, zhugua.xiagua_detail.name,
                               biangua.biangua_detail.name}
            /\ zhugua.shanggua_detail.wuxing \in WUXING
            /\ zhugua.xiagua_detail.wuxing \in WUXING
            /\ last.result.analysis.wuxing_analysis.guanxi # "wuguan"

\* C17 witness: a time casting from a negative year, whose sum with the
\* largest draw wraps around
C17_Witness ==
    /\ TimeCall
    /\ last.kwargs = [year |-> -1, month |-> 2, day |-> 1, hour |-> 23]
    /\ last.d = 6
    /\ last.result.gua.zhugua.shanggua = 2
    /\ last.result.gua.zhugua.xiagua = 1
    /\ last.result.gua.biangua.dongyao = 1
    /\ last.result.gua.biangua.biangua_detail.name = "qian"

-----------------------------------------------------------------------------
(* Properties of the instances that keep fields, checked under SpecInstances *)

LinearCall == pc = "done" /\ last.op = "LinearRegression.predict"

\* C18: whatever calls were made before on the same LinearRegression or on
\* the same EnsemblePredictor, predict(series, steps) returns, or raises,
\* exactly what a freshly constructed instance does for the same arguments.
C18_StatelessPerCall ==
    /\ LinearCall =>
          last.result
              = LinearRegression_predict(InitFields, last.data, last.steps).result
    /\ EnsembleCall =>
          \E ties \in EnsembleTies(last.data, last.steps) :
              last.result
                  = EnsemblePredictor_predict(InitFields, last.data,
                                              last.steps, ties).result

\* C18 witness: an instance whose intercept 1.0 is left from an earlier fit
\* of [1, 2] has been handed the single point [10**400] and has raised what
\* a new instance raises, its slope reset and its intercept still the old one
C18_Witness ==
    /\ LinearCall
    /\ last.data = <<HUGE>>
    /\ last.steps = 1
    /\ last.result = Exc("integer division result too large for a float")
    /\ lr = [slope |-> PyInt(0), intercept |-> PyFloat(1, 1)]

-----------------------------------------------------------------------------
(* Properties of the direction lookup, checked under SpecMeihua *)

\* the compass terms and the trigram names of BAGUA
CompassTerms == {BAGUA[i].fangwei : i \in 1..8}
TrigramNames == {BAGUA[i].name : i \in 1..8}

\* the upper trigram cast for the term carries that term as its compass
\* attribute, or as its name
UpperCarries(term) ==
    LET shang == BAGUA[last.result.gua.zhugua.shanggua]
    IN  /\ term \in CompassTerms => shang.fangwei = term
        /\ term \in TrigramNames => shang.name = term

\* C19: for every key of DIRECTION_TO_NUM that is a compass term,
\* direction_to_gua returns a trigram whose compass attribute in BAGUA is
\* that term, and for every key that is a trigram name it returns the
\* trigram of that name.
C19_DirectionTableConsistent ==
    (DirectionCall /\ last.result.basis.direction \in DOMAIN DIRECTION_TO_NUM) =>
        /\ last.result.basis.direction \in CompassTerms \cup TrigramNames
        /\ UpperCarries(last.result.basis.direction)

\* the same for every key but bei (北) and kan (坎)
DirectionTableConsistentButNorth ==
    (DirectionCall /\ last.result.basis.direction \in DOMAIN DIRECTION_TO_NUM
        /\ last.result.basis.direction \notin {"bei", "kan"}) =>
        UpperCarries(last.result.basis.direction)

-----------------------------------------------------------------------------
(* Properties of the yi command, checked under SpecCli *)

YiTimeCall == pc = "done" /\ last.op = "yi" /\ last.method = "time"

TimeOptions == {"year", "month", "day", "hour"}

\* the reading reports the options in given as they were supplied and the
\* clock's reading for the others, casts the lower trigram from the
\* reported values, and, when all four options are in given, is the same
\* under every clock
PassedUnchanged(given) ==
    /\ \A k \in given : last.result.basis[k] = last.args[k]
    /\ \A k \in TimeOptions \ DOMAIN last.args : last.result.basis[k] = last.now[k]
    /\ last.result.gua.zhugua.xiagua
           = get_gua_number(last.result.basis.year + last.result.basis.month
                            + last.result.basis.day + last.result.basis.hour)
    /\ given = TimeOptions =>
          \A c \in Clocks :
              LET other == cmd_yi_predict(last.question, "time", last.args, c,
                                          1, 1, last.d)
              IN  /\ other.basis = last.result.basis
                  /\ other.gua.zhugua.xiagua = last.result.gua.zhugua.xiagua

\* C20: the yi command with method time passes every supplied --year,
\* --month, --day and --hour value unchanged to the caster and uses the
\* clock only for an option that was not supplied, so that for every
\* supplied hour in 0..23 the reported basis and the lower trigram depend
\* on the supplied values alone and not on the clock.
C20_YiPassesSuppliedOptions ==
    YiTimeCall => PassedUnchanged(DOMAIN last.args)

\* the same for the options supplied with a value other than 0
YiPassesNonZeroOptions ==
    (YiTimeCall /\ \A k \in DOMAIN last.args : last.args[k] # 0)
        => PassedUnchanged(DOMAIN last.args)

=============================================================================
